---- MODULE Spec2Model ----
(***************************************************************************)
(* Model of the PDF summarisation scripts resumes.py (multi-document,      *)
(* pytesseract OCR) and resume_ocr_gpu.py (single document, EasyOCR).      *)
(*                                                                         *)
(* Three specifications share the module:                                  *)
(*   SpecSizer  get_ideal_chunk_size as a function of its inputs           *)
(*   SpecChunk  the loop of chunk_text, one iteration per step             *)
(*   SpecPipe   extraction, summarisation and reduction of both scripts    *)
(* Strings are sequences of one-character strings.                         *)
(***************************************************************************)
EXTENDS Integers, Sequences, FiniteSets, TLC

VARIABLES
    \* get_ideal_chunk_size
    cuda_available, default, total_mem_mib, props_raise, ideal, sizer_pc,
    \* chunk_text
    text, max_chars, start, prev_start, chunks, chunk_pc,
    \* the two scripts
    script, pc, todo, fname, pages_left, full_text, page_log, doc_text,
    doc_chunks, article_parts, summ_calls, reduce_calls, summaries, yielded,
    abort_cause, output

sizer_vars == <<cuda_available, default, total_mem_mib, props_raise, ideal, sizer_pc>>
chunk_vars == <<text, max_chars, start, prev_start, chunks, chunk_pc>>
pipe_vars == <<script, pc, todo, fname, pages_left, full_text, page_log, doc_text,
               doc_chunks, article_parts, summ_calls, reduce_calls, summaries,
               yielded, abort_cause, output>>
vars == <<sizer_vars, chunk_vars, pipe_vars>>

----------------------------------------------------------------------------
(* Bounds of the model *)

MaxTextLen == 6
MaxChars == 4
MaxPages == 2
MaxChunks == 2

----------------------------------------------------------------------------
(* Strings *)

Min(a, b) == IF a < b THEN a ELSE b
Max(a, b) == IF a > b THEN a ELSE b
SetMin(S) == CHOOSE x \in S : \A y \in S : x <= y
SetMax(S) == CHOOSE x \in S : \A y \in S : x >= y

\* the characters texts are drawn from: two letters, a blank and a newline
Chars == {"a", "b", " ", "\n"}
IsSpace(c) == c \in {" ", "\n"}
ParBreak == <<"\n", "\n">>

\* Python s[a:b] for 0 <= a, 0 <= b (0-based, end exclusive, clamped to len(s))
Slice(s, a, b) == SubSeq(s, a + 1, Min(b, Len(s)))

\* Python s.strip()
Strip(s) ==
    LET keep == {i \in 1..Len(s) : ~IsSpace(s[i])}
    IN  IF keep = {} THEN <<>> ELSE SubSeq(s, SetMin(keep), SetMax(keep))

\* Python s.rfind(sub, a, b): the highest 0-based index i with a <= i,
\* i + len(sub) <= min(b, len(s)) and s[i:i+len(sub)] = sub; -1 if none
RFind(s, sub, a, b) ==
    LET hits == {i \in a..(Min(b, Len(s)) - Len(sub)) :
                    SubSeq(s, i + 1, i + Len(sub)) = sub}
    IN  IF hits = {} THEN -1 ELSE SetMax(hits)

----------------------------------------------------------------------------
(* get_ideal_chunk_size (resumes.py) *)

MinChunk == 1024
MaxFactor == 120
CharsPerGB == 80000
MiBPerGB == 1024

DefaultSizes == {1, 8, 9, 100, 4000}
\* total memory of device 0, in MiB (24576 MiB = 24 GB)
MemSizes == {0, 1, 13, 14, 2048, 6144, 8192, 24576}

\* int(total_mem_gb * 80000), total_mem_gb = total_memory / 1024**3
IdealFromMem(mib) == (mib * CharsPerGB) \div MiBPerGB

ClampNoFloor(x, lo, hi) == Min(x, hi)
\* max(1024, min(ideal, default * 120))
Clamp(x, lo, hi) == Max(lo, Min(x, hi))

\* the inputs of a call are drawn; the variables of the other two
\* specifications rest
InitSizer ==
    /\ cuda_available \in BOOLEAN
    /\ default \in DefaultSizes
    /\ total_mem_mib \in MemSizes
    /\ props_raise \in BOOLEAN
    /\ ideal = 0
    /\ sizer_pc = "call"
    /\ text = <<>>
    /\ max_chars = 0
    /\ start = 0
    /\ prev_start = 0
    /\ chunks = <<>>
    /\ chunk_pc = "idle"
    /\ script = "none"
    /\ pc = "idle"
    /\ todo = <<>>
    /\ fname = <<>>
    /\ pages_left = 0
    /\ full_text = <<>>
    /\ page_log = <<>>
    /\ doc_text = <<>>
    /\ doc_chunks = <<>>
    /\ article_parts = <<>>
    /\ summ_calls = <<>>
    /\ reduce_calls = <<>>
    /\ summaries = <<>>
    /\ yielded = {}
    /\ abort_cause = "none"
    /\ output = "none"

get_ideal_chunk_size ==
    /\ sizer_pc = "call"
    /\ UNCHANGED <<chunk_vars, pipe_vars>>
    /\ ideal' = IF ~cuda_available THEN default
                ELSE IF props_raise THEN default
                ELSE Clamp(IdealFromMem(total_mem_mib), MinChunk, default * MaxFactor)
    /\ sizer_pc' = "returned"
    /\ UNCHANGED <<cuda_available, default, total_mem_mib, props_raise>>

----------------------------------------------------------------------------
(* chunk_text (both scripts; the loops are identical) *)

Texts == UNION {[1..n -> Chars] : n \in 0..MaxTextLen}

\* lines 90-94: the end of the slice that starts at s
ChunkEndOvershoot(t, s, m) == s + m + 1
ChunkEnd(t, s, m) ==
    LET end == s + m
    IN  IF end < Len(t)
        THEN LET split == RFind(t, ParBreak, s, end)
             IN  IF split # -1 THEN split ELSE end
        ELSE end

\* line 98: start = end
NextStartSkip(end) == end + 1
NextStart(end) == end

\* lines 86-88, with the text and the budget drawn
InitChunk ==
    /\ text \in Texts
    /\ max_chars \in 1..MaxChars
    /\ start = 0
    /\ prev_start = -1
    /\ chunks = <<>>
    /\ chunk_pc = "loop"
    /\ cuda_available = FALSE
    /\ default = 0
    /\ total_mem_mib = 0
    /\ props_raise = FALSE
    /\ ideal = 0
    /\ sizer_pc = "idle"
    /\ script = "none"
    /\ pc = "idle"
    /\ todo = <<>>
    /\ fname = <<>>
    /\ pages_left = 0
    /\ full_text = <<>>
    /\ page_log = <<>>
    /\ doc_text = <<>>
    /\ doc_chunks = <<>>
    /\ article_parts = <<>>
    /\ summ_calls = <<>>
    /\ reduce_calls = <<>>
    /\ summaries = <<>>
    /\ yielded = {}
    /\ abort_cause = "none"
    /\ output = "none"

\* one iteration of the while loop; prev_start remembers the start offset
\* the iteration began with
ChunkIter ==
    /\ chunk_pc = "loop"
    /\ UNCHANGED <<sizer_vars, pipe_vars>>
    /\ start < Len(text)
    /\ LET end == ChunkEnd(text, start, max_chars)
           chunk == Strip(Slice(text, start, end))
       IN  /\ chunks' = IF chunk # <<>> THEN Append(chunks, chunk) ELSE chunks
           /\ start' = NextStart(end)
    /\ prev_start' = start
    /\ UNCHANGED <<text, max_chars, chunk_pc>>

ChunkReturn ==
    /\ chunk_pc = "loop"
    /\ UNCHANGED <<sizer_vars, pipe_vars>>
    /\ ~(start < Len(text))
    /\ chunk_pc' = "done"
    /\ UNCHANGED <<text, max_chars, start, prev_start, chunks>>

----------------------------------------------------------------------------
(* File names (resumes.py, process_papers) *)

Str_pdf == <<".", "p", "d", "f">>
Name_a_pdf == <<"a", ".", "p", "d", "f">>
Name_a_pdf_pdf == <<"a", ".", "p", "d", "f", ".", "p", "d", "f">>
Name_b_PDF == <<"b", ".", "P", "D", "F">>
Name_b_txt == <<"b", ".", "t", "x", "t">>
\* the names a directory listing is drawn from
NamePool == {Name_a_pdf, Name_a_pdf_pdf, Name_b_PDF, Name_b_txt}

\* code points of the characters of the names, for sorted()
Ord(c) ==
    CASE c = "." -> 46 [] c = "D" -> 68 [] c = "F" -> 70 [] c = "P" -> 80
      [] c = "a" -> 97 [] c = "b" -> 98 [] c = "d" -> 100 [] c = "f" -> 102
      [] c = "p" -> 112 [] c = "t" -> 116 [] c = "x" -> 120

\* Python str < str
RECURSIVE StrLess(_, _)
StrLess(x, y) ==
    IF y = <<>> THEN FALSE
    ELSE IF x = <<>> THEN TRUE
    ELSE IF Ord(Head(x)) # Ord(Head(y)) THEN Ord(Head(x)) < Ord(Head(y))
    ELSE StrLess(Tail(x), Tail(y))

\* sorted(S) for a set of distinct strings
RECURSIVE Sorted(_)
Sorted(S) ==
    IF S = {} THEN <<>>
    ELSE LET m == CHOOSE x \in S : \A y \in S \ {x} : StrLess(x, y)
         IN  <<m>> \o Sorted(S \ {m})

\* str.lower() on the characters of the names
LowerChar(c) ==
    CASE c = "P" -> "p" [] c = "D" -> "d" [] c = "F" -> "f" [] OTHER -> c
Lower(x) == [i \in 1..Len(x) |-> LowerChar(x[i])]

\* str.endswith
EndsWith(x, suffix) ==
    Len(x) >= Len(suffix) /\ SubSeq(x, Len(x) - Len(suffix) + 1, Len(x)) = suffix

\* str.replace(old, new): every non-overlapping occurrence, left to right
RECURSIVE Replace(_, _, _)
Replace(x, old, new) ==
    IF Len(x) < Len(old) THEN x
    ELSE IF SubSeq(x, 1, Len(old)) = old
         THEN new \o Replace(SubSeq(x, Len(old) + 1, Len(x)), old, new)
         ELSE <<Head(x)>> \o Replace(Tail(x), old, new)

\* line 146: fname.lower().endswith('.pdf')
IsPdf(f) == EndsWith(Lower(f), Str_pdf)

\* line 159: fname.replace('.pdf','')
Title(f) == Replace(f, Str_pdf, <<>>)

\* sep.join(parts)
RECURSIVE Join(_, _)
Join(parts, sep) ==
    IF parts = <<>> THEN <<>>
    ELSE IF Len(parts) = 1 THEN parts[1]
    ELSE parts[1] \o sep \o Join(Tail(parts), sep)

----------------------------------------------------------------------------
(* The two scripts: extraction, summarisation, reduction *)

Scripts == {"resumes", "resume_ocr_gpu"}

\* what page.get_text() may return
NativeTexts == {<<>>, <<"\n">>, <<"a", " ">>}
\* what a call of the OCR engine may do
OcrOutcomes == {"raise", "blank", "text"}
\* what a call of ollama.chat (and the read of its response) may do
LlmOutcomes == {"raise", "blank", "text"}
WriteOutcomes == {"raise", "ok"}
\* what fitz.open may do (resume_ocr_gpu.py: a missing file counts as "raise")
OpenOutcomes == {"raise", "ok"}
\* the number of pages of a document
PageCounts == 0..MaxPages

\* the trimmed text of a page the OCR engine was run on
\*   resumes.py:        pytesseract.image_to_string(img).strip()
\*   resume_ocr_gpu.py: "\n".join(reader.readtext(...)).strip(), with
\*                      results = [] when readtext raises
OcrText(s, outcome) ==
    IF s = "resumes"
    THEN Strip(IF outcome = "text" THEN <<"b", "\n">> ELSE <<" ">>)
    ELSE Strip(Join(IF outcome = "text" THEN << <<"b">>, <<"b">> >>
                    ELSE IF outcome = "blank" THEN << <<" ">> >>
                    ELSE <<>>, <<"\n">>))

\* `if text:` after text = page.get_text().strip(): OCR runs in the else branch
NeedsOcrAlways(t) == TRUE
NeedsOcr(t) == t = <<>>

\* whether an exception of the step escapes the function that runs it
\*   fitz.open: resumes.py 58 has no try; resume_ocr_gpu.py 46-54 returns ""
OpenPropagates(s) == s = "resumes"
\*   OCR: resumes.py 68 has no try; resume_ocr_gpu.py 70-78 catches
OcrPropagates(s) == s = "resumes"
\*   summarize_chunk: resumes.py 108-115 has no try; resume_ocr_gpu.py 119-132 catches
SummarizePropagates(s) == s = "resumes"
\*   single-document reduce: resumes.py 129-136 has no try;
\*   resume_ocr_gpu.py 146-159 catches
ReducePropagates(s) == s = "resumes"
\*   write: resumes.py 213 has no try; resume_ocr_gpu.py 180-185 catches
WritePropagates(s) == s = "resumes"

Empty == <<>>
SummaryOf(chunk) == <<"summary", chunk>>
SynthesisOf(f) == <<"synthesis", f>>
NonEmpty(x) == x # Empty

\* the input of the single-document reduce
\*   resumes.py 122:        "\n\n".join(summaries)
\*   resume_ocr_gpu.py 139: "\n\n".join(f"- {s}" for s in summaries if s)
ReduceInput(s, parts) ==
    IF s = "resumes" THEN parts ELSE SelectSeq(parts, NonEmpty)

\* dict assignment d[k] = v
DictPut(d, k, v) == [t \in DOMAIN d \cup {k} |-> IF t = k THEN v ELSE d[t]]

\* either script, before its main runs
InitPipe ==
    /\ script \in Scripts
    /\ pc = "start"
    /\ todo = <<>>
    /\ fname = <<>>
    /\ pages_left = 0
    /\ full_text = <<>>
    /\ page_log = <<>>
    /\ doc_text = <<>>
    /\ doc_chunks = <<>>
    /\ article_parts = <<>>
    /\ summ_calls = <<>>
    /\ reduce_calls = <<>>
    /\ summaries = <<>>
    /\ yielded = {}
    /\ abort_cause = "none"
    /\ output = "none"
    /\ cuda_available = FALSE
    /\ default = 0
    /\ total_mem_mib = 0
    /\ props_raise = FALSE
    /\ ideal = 0
    /\ sizer_pc = "idle"
    /\ text = <<>>
    /\ max_chars = 0
    /\ start = 0
    /\ prev_start = 0
    /\ chunks = <<>>
    /\ chunk_pc = "idle"

\* an exception nothing catches ends the process
Abort(cause) ==
    /\ pc' = "aborted"
    /\ abort_cause' = cause

\* resumes.py main 204-205 with process_papers 144-145: the directory is
\* listed and sorted; resume_ocr_gpu.py main 163-164: the one PDF_FILE
Start ==
    /\ pc = "start"
    /\ UNCHANGED <<sizer_vars, chunk_vars>>
    /\ IF script = "resumes"
       THEN \E listing \in SUBSET NamePool :
                /\ todo' = Sorted(listing)
                /\ pc' = "next_file"
                /\ UNCHANGED fname
       ELSE /\ todo' = <<>>
            /\ fname' = Name_a_pdf
            /\ pc' = "open"
    /\ UNCHANGED <<script, pages_left, full_text, page_log, doc_text, doc_chunks,
                   article_parts, summ_calls, reduce_calls, summaries, yielded,
                   abort_cause, output>>

\* process_papers 145-148: the next name of the sorted listing; names that
\* are no PDF are passed over
NextFile ==
    /\ pc = "next_file"
    /\ UNCHANGED <<sizer_vars, chunk_vars>>
    /\ todo # <<>>
    /\ todo' = Tail(todo)
    /\ IF IsPdf(Head(todo))
       THEN /\ fname' = Head(todo)
            /\ pc' = "open"
       ELSE UNCHANGED <<fname, pc>>
    /\ UNCHANGED <<script, pages_left, full_text, page_log, doc_text, doc_chunks,
                   article_parts, summ_calls, reduce_calls, summaries, yielded,
                   abort_cause, output>>

\* extract_text_from_pdf up to the page loop: the file is opened
OpenPdf ==
    /\ pc = "open"
    /\ UNCHANGED <<sizer_vars, chunk_vars>>
    /\ \E o \in OpenOutcomes, n \in PageCounts :
          IF o = "raise"
          THEN IF OpenPropagates(script)
               THEN /\ Abort("open")
                    /\ UNCHANGED <<pages_left, full_text, page_log, doc_text>>
               ELSE \* extract_text_from_pdf returns ""
                    /\ pc' = "extracted"
                    /\ doc_text' = <<>>
                    /\ UNCHANGED <<pages_left, full_text, page_log, abort_cause>>
          ELSE /\ pages_left' = n
               /\ full_text' = <<>>
               /\ page_log' = <<>>
               /\ pc' = "page"
               /\ UNCHANGED <<doc_text, abort_cause>>
    /\ doc_chunks' = <<>>
    /\ article_parts' = <<>>
    /\ summ_calls' = <<>>
    /\ reduce_calls' = <<>>
    /\ UNCHANGED <<script, todo, fname, summaries, yielded, output>>

\* one iteration of the page loop: native text first, OCR when the trimmed
\* native text is empty. page_log keeps, per page, the trimmed native text,
\* what the OCR engine did ("skipped" when it was not run) and what was
\* appended to full_text.
ExtractPage ==
    /\ pc = "page"
    /\ UNCHANGED <<sizer_vars, chunk_vars>>
    /\ pages_left > 0
    /\ \E native \in NativeTexts, o \in OcrOutcomes :
          LET t == Strip(native)
          IN  IF ~NeedsOcr(t)
              THEN /\ full_text' = Append(full_text, t)
                   /\ page_log' = Append(page_log,
                          [native |-> t, ocr |-> "skipped", appended |-> t])
                   /\ pages_left' = pages_left - 1
                   /\ UNCHANGED <<pc, abort_cause>>
              ELSE IF o = "raise" /\ OcrPropagates(script)
              THEN /\ Abort("ocr")
                   /\ page_log' = Append(page_log,
                          [native |-> t, ocr |-> o, appended |-> Empty])
                   /\ UNCHANGED <<full_text, pages_left>>
              ELSE LET ocr_text == OcrText(script, o)
                   IN  /\ full_text' = IF ocr_text # <<>>
                                       THEN Append(full_text, ocr_text)
                                       ELSE full_text
                       /\ page_log' = Append(page_log,
                              [native |-> t, ocr |-> o, appended |-> ocr_text])
                       /\ pages_left' = pages_left - 1
                       /\ UNCHANGED <<pc, abort_cause>>
    /\ UNCHANGED <<script, todo, fname, doc_text, doc_chunks, article_parts,
                   summ_calls, reduce_calls, summaries, yielded, output>>

\* return "\n\n".join(full_text)
ExtractReturn ==
    /\ pc = "page"
    /\ UNCHANGED <<sizer_vars, chunk_vars>>
    /\ pages_left = 0
    /\ doc_text' = Join(full_text, ParBreak)
    /\ pc' = "extracted"
    /\ UNCHANGED <<script, todo, fname, pages_left, full_text, page_log, doc_chunks,
                   article_parts, summ_calls, reduce_calls, summaries, yielded,
                   abort_cause, output>>

\* `if not text`: process_papers 150-152 goes on with the next file, main of
\* resume_ocr_gpu.py 165-167 returns. Otherwise chunk_text is called
\* (153, 169): the texts here are far shorter than its budget of thousands
\* of characters, so the number of chunks it returns for a longer text is
\* drawn instead; chunk_text itself is SpecChunk.
ChunkDoc ==
    /\ pc = "extracted"
    /\ UNCHANGED <<sizer_vars, chunk_vars>>
    /\ IF doc_text = <<>>
       THEN /\ pc' = IF script = "resumes" THEN "next_file" ELSE "done"
            /\ UNCHANGED <<doc_chunks, yielded>>
       ELSE \E k \in 1..MaxChunks :
                /\ doc_chunks' = [i \in 1..k |-> i]
                /\ yielded' = yielded \cup {fname}
                /\ pc' = "summarize"
    /\ UNCHANGED <<script, todo, fname, pages_left, full_text, page_log, doc_text,
                   article_parts, summ_calls, reduce_calls, summaries,
                   abort_cause, output>>

\* one iteration of the summarize loop (156-158, 173-175): summarize_chunk
\* on the next chunk
SummarizeChunk ==
    /\ pc = "summarize"
    /\ UNCHANGED <<sizer_vars, chunk_vars>>
    /\ Len(article_parts) < Len(doc_chunks)
    /\ \E o \in LlmOutcomes :
          LET chunk == doc_chunks[Len(article_parts) + 1]
          IN  /\ summ_calls' = Append(summ_calls, [chunk |-> chunk, outcome |-> o])
              /\ IF o = "raise" /\ SummarizePropagates(script)
                 THEN /\ Abort("summarize")
                      /\ UNCHANGED article_parts
                 ELSE /\ article_parts' = Append(article_parts,
                            IF o = "text" THEN SummaryOf(chunk) ELSE Empty)
                      /\ UNCHANGED <<pc, abort_cause>>
    /\ UNCHANGED <<script, todo, fname, pages_left, full_text, page_log, doc_text,
                   doc_chunks, reduce_calls, summaries, yielded, output>>

\* the single-document reduce after the loop: process_papers 159 stores its
\* result under the title and goes on with the next file; main of
\* resume_ocr_gpu.py 178 keeps it as the final summary
ReduceDoc ==
    /\ pc = "summarize"
    /\ UNCHANGED <<sizer_vars, chunk_vars>>
    /\ Len(article_parts) = Len(doc_chunks)
    /\ \E o \in LlmOutcomes :
          /\ reduce_calls' = Append(reduce_calls,
                [input |-> ReduceInput(script, article_parts), outcome |-> o])
          /\ IF o = "raise" /\ ReducePropagates(script)
             THEN /\ Abort("reduce")
                  /\ UNCHANGED summaries
             ELSE /\ summaries' = DictPut(summaries,
                                      IF script = "resumes" THEN Title(fname) ELSE fname,
                                      IF o = "text" THEN SynthesisOf(fname) ELSE Empty)
                  /\ pc' = IF script = "resumes" THEN "next_file" ELSE "write"
                  /\ UNCHANGED abort_cause
    /\ UNCHANGED <<script, todo, fname, pages_left, full_text, page_log, doc_text,
                   doc_chunks, article_parts, summ_calls, yielded, output>>

\* resumes.py: process_papers returns (160); main 206-208 stops when the
\* dictionary is empty, else hands it to synthesize_summaries (211)
PapersReturn ==
    /\ pc = "next_file"
    /\ UNCHANGED <<sizer_vars, chunk_vars>>
    /\ todo = <<>>
    /\ pc' = IF DOMAIN summaries = {} THEN "done" ELSE "synthesize"
    /\ UNCHANGED <<script, todo, fname, pages_left, full_text, page_log, doc_text,
                   doc_chunks, article_parts, summ_calls, reduce_calls, summaries,
                   yielded, abort_cause, output>>

\* resumes.py synthesize_summaries 163-196: one call over the dictionary
Synthesize ==
    /\ pc = "synthesize"
    /\ UNCHANGED <<sizer_vars, chunk_vars>>
    /\ \E o \in LlmOutcomes :
          IF o = "raise"
          THEN Abort("synthesize")
          ELSE pc' = "write" /\ UNCHANGED abort_cause
    /\ UNCHANGED <<script, todo, fname, pages_left, full_text, page_log, doc_text,
                   doc_chunks, article_parts, summ_calls, reduce_calls, summaries,
                   yielded, output>>

\* the result is written (resumes.py 213-215, resume_ocr_gpu.py 180-185)
WriteOutput ==
    /\ pc = "write"
    /\ UNCHANGED <<sizer_vars, chunk_vars>>
    /\ \E o \in WriteOutcomes :
          IF o = "raise"
          THEN IF WritePropagates(script)
               THEN Abort("write") /\ UNCHANGED output
               ELSE pc' = "done" /\ UNCHANGED <<output, abort_cause>>
          ELSE /\ output' = "written"
               /\ pc' = "done"
               /\ UNCHANGED abort_cause
    /\ UNCHANGED <<script, todo, fname, pages_left, full_text, page_log, doc_text,
                   doc_chunks, article_parts, summ_calls, reduce_calls, summaries,
                   yielded>>

----------------------------------------------------------------------------
(* Properties of get_ideal_chunk_size *)

\* C9 (as stated): with an accelerator the result v satisfies
\* 1024 <= v <= default * 120 for every default and memory size, also when
\* reading the properties fails; without an accelerator it is default.
C9_ClampedAlways ==
    sizer_pc = "returned" =>
        IF cuda_available
        THEN MinChunk <= ideal /\ ideal <= default * MaxFactor
        ELSE ideal = default

\* C9 (amended): with an accelerator whose properties are read, the result v
\* satisfies 1024 <= v <= max(1024, default * 120); when reading the
\* properties fails, and without an accelerator, the result is default.
C9_ClampedWhenRead ==
    sizer_pc = "returned" =>
        IF cuda_available /\ ~props_raise
        THEN /\ MinChunk <= ideal
             /\ ideal <= Max(MinChunk, default * MaxFactor)
             /\ (default * MaxFactor >= MinChunk => ideal <= default * MaxFactor)
        ELSE ideal = default

\* an accelerator with more memory than the upper limit allows for
C9_Witness ==
    /\ sizer_pc = "returned"
    /\ cuda_available /\ ~props_raise
    /\ IdealFromMem(total_mem_mib) > default * MaxFactor
    /\ default * MaxFactor > MinChunk
    /\ ideal = default * MaxFactor

----------------------------------------------------------------------------
(* Properties of chunk_text *)

NonSpace(c) == ~IsSpace(c)
NonWs(s) == SelectSeq(s, NonSpace)

RECURSIVE Flatten(_)
Flatten(ss) == IF ss = <<>> THEN <<>> ELSE Head(ss) \o Flatten(Tail(ss))

HasParBreak(s) == RFind(s, ParBreak, 0, Len(s)) # -1

\* C1: every iteration of the loop strictly advances the start offset (so
\* the loop ends), also when the cut point is a paragraph break located at
\* the start offset.
C1_StartAdvances ==
    chunk_pc \in {"loop", "done"} => prev_start < start

\* C2: no chunk is longer than the budget, and a window without a paragraph
\* break that ends before the end of the text is cut exactly at the budget.
C2_ChunksWithinBudget ==
    chunk_pc \in {"loop", "done"} =>
        /\ \A i \in 1..Len(chunks) : Len(chunks[i]) <= max_chars
        /\ ( /\ prev_start >= 0
             /\ prev_start + max_chars < Len(text)
             /\ RFind(text, ParBreak, prev_start, prev_start + max_chars) = -1 )
           => start = prev_start + max_chars

\* a paragraph longer than the budget was cut at the budget boundary
C2_Witness ==
    /\ chunk_pc = "done"
    /\ ~HasParBreak(text)
    /\ Len(chunks) >= 2
    /\ Len(chunks[1]) = max_chars
    /\ Len(Strip(text)) > max_chars

\* C3: the chunks are the trimmed forms of consecutive slices of the text:
\* the slice of the last iteration starts where the one before ended, the
\* chunks so far hold exactly the non-whitespace characters of text[0:start]
\* in order, no chunk is empty, and on return the slices cover the text.
C3_RoundTrip ==
    chunk_pc \in {"loop", "done"} =>
        /\ \A i \in 1..Len(chunks) : chunks[i] # <<>> /\ chunks[i] = Strip(chunks[i])
        /\ NonWs(Flatten(chunks)) = NonWs(Slice(text, 0, start))
        /\ prev_start >= 0 =>
              LET piece == Strip(Slice(text, prev_start, start))
              IN  piece # <<>> => chunks # <<>> /\ chunks[Len(chunks)] = piece
        /\ chunk_pc = "done" => start >= Len(text)

\* a text cut at a paragraph break, where trimming removed the separator
C3_Witness ==
    /\ chunk_pc = "done"
    /\ HasParBreak(text)
    /\ Len(chunks) >= 2
    /\ Flatten(chunks) # text
    /\ NonWs(Flatten(chunks)) = NonWs(text)
    /\ \E i \in 1..Len(text) : text[i] = "a"
    /\ \E i \in 1..Len(text) : text[i] = "b"

----------------------------------------------------------------------------
(* Properties of the two scripts *)

Aborted(cause) == pc = "aborted" /\ abort_cause = cause

\* C4: in both scripts a failed per-chunk summarize call is caught: the
\* chunk's summary is the empty string and the run goes on.
C4_SummarizeFailureCaught ==
    \A j \in 1..Len(summ_calls) :
        summ_calls[j].outcome = "raise" =>
            /\ ~Aborted("summarize")
            /\ Len(article_parts) >= j
            /\ article_parts[j] = Empty

\* C5: in both extractors an exception of the OCR engine on a page is
\* caught: the page counts as having no text and extraction goes on.
C5_OcrFailureSkipsPage ==
    \A j \in 1..Len(page_log) :
        page_log[j].ocr = "raise" =>
            /\ ~Aborted("ocr")
            /\ page_log[j].appended = Empty

\* C6: in multi-document mode a PDF that cannot be opened ends the work on
\* that document only; process_papers goes on with the next file.
C6_UnreadableIsLocal ==
    script = "resumes" => ~Aborted("open")

\* C7: the dictionary handed to the comparative reduce has exactly one
\* entry for each PDF whose extraction gave text, under that PDF's title,
\* holding that PDF's summary, and no other entry.
C7_OneEntryPerDocument ==
    (script = "resumes" /\ pc = "synthesize") =>
        /\ DOMAIN summaries = {Title(f) : f \in yielded}
        /\ Cardinality(DOMAIN summaries) = Cardinality(yielded)
        /\ \A f \in yielded : summaries[Title(f)] \in {SynthesisOf(f), Empty}

\* C8: a page whose trimmed native text is not empty never reaches the OCR
\* engine and contributes its native text; the OCR engine runs only on
\* pages whose trimmed native text is empty; full_text is what the pages
\* contributed, in page order.
Appended(r) == r.appended # Empty
C8_NativePreferred ==
    script \in Scripts =>
        /\ \A j \in 1..Len(page_log) :
              /\ page_log[j].native # <<>> =>
                    page_log[j].ocr = "skipped" /\ page_log[j].appended = page_log[j].native
              /\ page_log[j].ocr # "skipped" => page_log[j].native = <<>>
        /\ LET kept == SelectSeq(page_log, Appended)
           IN  full_text = [j \in 1..Len(kept) |-> kept[j].appended]

\* a document with a native-text page and a page read by the OCR engine
C8_Witness ==
    /\ pc = "extracted"
    /\ \E j \in 1..Len(page_log) :
          page_log[j].native # <<>> /\ page_log[j].ocr = "skipped"
    /\ \E j \in 1..Len(page_log) :
          page_log[j].native = <<>> /\ page_log[j].ocr = "text"
    /\ Len(full_text) = 2

\* C10: for a document split into k chunks there are exactly k summarize
\* calls, on chunks 1..k in this order, then exactly one reduce call, whose
\* input lists the summaries in chunk order and holds no chunk text.
InChunkOrder(input) ==
    /\ \A a \in 1..Len(input) : input[a] # Empty => input[a][1] = "summary"
    /\ \A a, b \in 1..Len(input) :
          (a < b /\ input[a] # Empty /\ input[b] # Empty) => input[a][2] < input[b][2]
C10_CallsPerDocument ==
    doc_chunks # <<>> =>
        LET k == Len(doc_chunks)
        IN  /\ Len(summ_calls) <= k
            /\ \A j \in 1..Len(summ_calls) : summ_calls[j].chunk = doc_chunks[j]
            /\ \A j \in 1..Len(article_parts) :
                  article_parts[j] \in {SummaryOf(doc_chunks[j]), Empty}
            /\ Len(reduce_calls) <= 1
            /\ reduce_calls # <<>> =>
                  /\ Len(summ_calls) = k
                  /\ reduce_calls[1].input = ReduceInput(script, article_parts)
                  /\ InChunkOrder(reduce_calls[1].input)
            \* the work on the document is over
            /\ pc # "summarize" => Len(summ_calls) = k /\ Len(reduce_calls) = 1

----------------------------------------------------------------------------
(* Specifications *)

NextSizer == get_ideal_chunk_size
SpecSizer == InitSizer /\ [][NextSizer]_vars

NextChunk == ChunkIter \/ ChunkReturn
SpecChunk == InitChunk /\ [][NextChunk]_vars

NextPipe ==
    \/ Start \/ NextFile \/ OpenPdf \/ ExtractPage \/ ExtractReturn \/ ChunkDoc
    \/ SummarizeChunk \/ ReduceDoc \/ PapersReturn \/ Synthesize \/ WriteOutput
SpecPipe == InitPipe /\ [][NextPipe]_vars

====
